---- MODULE Spec2Model ----
(***************************************************************************)
(* Model of the zim task list plugin (src/zim/plugins/tasklist.py):        *)
(* the plugin's "tasklist" table with index_page / remove_page, the task   *)
(* extraction from a page's paragraphs, and the TaskListTreeView filter.   *)
(*                                                                         *)
(* Text is a sequence of one-character strings, so that the regular        *)
(* expressions and substring tests of the source are computed and not      *)
(* assumed.                                                                *)
(***************************************************************************)
EXTENDS Integers, Sequences, FiniteSets, TLC

(***************************************************************************)
(* Text primitives (python str / re behaviour used by the source)          *)
(***************************************************************************)

\* str.lower() on one character, for the letters the model uses
LowerChar(c) ==
    CASE c = "A" -> "a"
      [] c = "B" -> "b"
      [] c = "N" -> "n"
      [] c = "T" -> "t"
      [] c = "X" -> "x"
      [] OTHER -> c

\* str.lower()
Lower(s) == [i \in 1..Len(s) |-> LowerChar(s[i])]

\* \s of the re module
IsSpace(c) == c \in {" ", "\t", "\n"}

\* \w of the re module (re.U): letters, digits, underscore
IsWord(c) ==
    c \in {"a", "b", "c", "d", "e", "g", "l", "n", "o", "p", "r", "s", "t",
           "x", "y", "k", "A", "B", "N", "T", "X", "_",
           "0", "1", "2", "3", "4", "5", "6", "7", "8", "9"}

\* the rest of s from 1-based position i on
Tail_(s, i) == SubSeq(s, i, Len(s))

\* s.startswith(p) at 1-based position i
StartsAt(s, i, p) ==
    /\ i + Len(p) - 1 <= Len(s)
    /\ SubSeq(s, i, i + Len(p) - 1) = p

\* python "needle in s"
Contains(s, needle) == \E i \in 1..(Len(s) + 1) : StartsAt(s, i, needle)

\* first position >= i of s that does not hold a character of class P
RECURSIVE SkipSpace(_, _)
SkipSpace(s, i) ==
    IF i <= Len(s) /\ IsSpace(s[i]) THEN SkipSpace(s, i + 1) ELSE i

RECURSIVE SkipWord(_, _)
SkipWord(s, i) ==
    IF i <= Len(s) /\ IsWord(s[i]) THEN SkipWord(s, i + 1) ELSE i

RECURSIVE SkipBang(_, _)
SkipBang(s, i) ==
    IF i <= Len(s) /\ s[i] = "!" THEN SkipBang(s, i + 1) ELSE i

\* str.strip(): without leading and trailing white space
RECURSIVE RStrip(_)
RStrip(s) ==
    IF Len(s) > 0 /\ IsSpace(s[Len(s)]) THEN RStrip(SubSeq(s, 1, Len(s) - 1)) ELSE s

Strip(s) == RStrip(Tail_(s, SkipSpace(s, 1)))

\* str.strip(':'): without leading and trailing colons
RECURSIVE StripColons(_)
StripColons(s) ==
    IF Len(s) > 0 /\ s[1] = ":" THEN StripColons(Tail(s))
    ELSE IF Len(s) > 0 /\ s[Len(s)] = ":" THEN StripColons(SubSeq(s, 1, Len(s) - 1))
    ELSE s

\* str.split(): the white-space separated words of s
RECURSIVE SplitFrom(_, _, _)
SplitFrom(s, i, word) ==
    IF i > Len(s) THEN (IF word = <<>> THEN <<>> ELSE <<word>>)
    ELSE IF IsSpace(s[i])
         THEN (IF word = <<>> THEN <<>> ELSE <<word>>) \o SplitFrom(s, i + 1, <<>>)
         ELSE SplitFrom(s, i + 1, Append(word, s[i]))

Split(s) == SplitFrom(s, 1, <<>>)

\* str.count('!')
RECURSIVE CountBang(_)
CountBang(s) ==
    IF s = <<>> THEN 0
    ELSE (IF s[1] = "!" THEN 1 ELSE 0) + CountBang(Tail(s))

\* the characters of tags and page names in the order python compares them
CharOrder ==
    <<"0", "1", "2", "3", "4", "5", "6", "7", "8", "9", ":",
      "A", "B", "N", "T", "X", "_",
      "a", "b", "c", "d", "e", "g", "k", "l", "n", "o", "p", "r", "s", "t", "x", "y">>

Ord(c) == CHOOSE i \in 1..Len(CharOrder) : CharOrder[i] = c

\* python a < b on texts
RECURSIVE TextLess(_, _)
TextLess(a, b) ==
    IF b = <<>> THEN FALSE
    ELSE IF a = <<>> THEN TRUE
    ELSE IF a[1] = b[1] THEN TextLess(Tail(a), Tail(b))
    ELSE Ord(a[1]) < Ord(b[1])

\* tag_re (r'(?<!\S)@(\w+)\b') at position i of s: the end of the match
\* (the position after the tag), 0 when it does not match there
tag_re_at(s, i) ==
    IF /\ s[i] = "@"
       /\ (i = 1 \/ IsSpace(s[i - 1]))
       /\ i < Len(s) /\ IsWord(s[i + 1])
    THEN SkipWord(s, i + 1) ELSE 0

\* tag_re.findall(s): the tags of s, without the '@'
RECURSIVE tag_re_findall_from(_, _)
tag_re_findall_from(s, i) ==
    IF i > Len(s) THEN <<>>
    ELSE IF tag_re_at(s, i) > 0
         THEN <<SubSeq(s, i + 1, tag_re_at(s, i) - 1)>>
              \o tag_re_findall_from(s, tag_re_at(s, i))
         ELSE tag_re_findall_from(s, i + 1)

tag_re_findall(s) == tag_re_findall_from(s, 1)

\* re.sub('\s*!+\s*', ' ', s)
RECURSIVE sub_exclamation_from(_, _)
sub_exclamation_from(s, i) ==
    IF i > Len(s) THEN <<>>
    ELSE LET b == SkipSpace(s, i)
         IN  IF b <= Len(s) /\ s[b] = "!"
             THEN <<" ">> \o sub_exclamation_from(s, SkipSpace(s, SkipBang(s, b)))
             ELSE <<s[i]>> \o sub_exclamation_from(s, i + 1)

sub_exclamation(s) == sub_exclamation_from(s, 1)

(***************************************************************************)
(* Constants of the source                                                 *)
(***************************************************************************)

\* zim.formats bullet kinds; "*" is a plain bullet
UNCHECKED_BOX == "unchecked-box"
CHECKED_BOX == "checked-box"
XCHECKED_BOX == "xchecked-box"
BULLET == "*"

\* _NO_DATE = '9999'
NO_DATE == <<"9", "9", "9", "9">>

\* _NO_TAGS = '__no_tags__'
NO_TAGS == <<"_", "_", "n", "o", "_", "t", "a", "g", "s", "_", "_">>

\* python None where a text is expected: false in a condition, like ''
None == <<>>

(***************************************************************************)
(* Preferences and what _set_preferences derives from them                 *)
(***************************************************************************)

\* str.split(','), each part stripped
RECURSIVE SplitCommaFrom(_, _, _)
SplitCommaFrom(s, i, part) ==
    IF i > Len(s) THEN <<Strip(part)>>
    ELSE IF s[i] = ","
         THEN <<Strip(part)>> \o SplitCommaFrom(s, i + 1, <<>>)
         ELSE SplitCommaFrom(s, i + 1, Append(part, s[i]))

SplitComma(s) == SplitCommaFrom(s, 1, <<>>)

\* str.strip(' ,')
RECURSIVE StripSpaceComma(_)
StripSpaceComma(s) ==
    IF Len(s) > 0 /\ s[1] \in {" ", ","} THEN StripSpaceComma(Tail(s))
    ELSE IF Len(s) > 0 /\ s[Len(s)] \in {" ", ","}
         THEN StripSpaceComma(SubSeq(s, 1, Len(s) - 1))
    ELSE s

\* self.task_labels: the labels preference, then the next label
task_labels(prefs) ==
    (IF StripSpaceComma(prefs.labels) # <<>> THEN SplitComma(prefs.labels) ELSE <<>>)
    \o (IF prefs.next_label # <<>> THEN <<prefs.next_label>> ELSE <<>>)

\* self.task_label_re.match(text): whether '^(' + '|'.join(labels) + r')(?!\w)'
\* matches at the start of text, and the label (group 1) it matched
task_label_match(prefs, text) ==
    LET labels == task_labels(prefs)
        ok(k) == /\ StartsAt(text, 1, labels[k])
                 /\ ~(Len(labels[k]) < Len(text) /\ IsWord(text[Len(labels[k]) + 1]))
        hits == {k \in 1..Len(labels) : ok(k)}
    IN  IF hits = {} THEN [found |-> FALSE, label |-> <<>>]
        ELSE [found |-> TRUE, label |-> labels[CHOOSE k \in hits : \A j \in hits : k <= j]]

\* self.next_label_re.match(text): the length of the match of
\* '^' + next_label + r':?\s+' at the start of text, 0 when there is none
next_label_match(prefs, text) ==
    LET n == Len(prefs.next_label)
        afterColon == IF n < Len(text) /\ text[n + 1] = ":" THEN n + 2 ELSE n + 1
        endColon == SkipSpace(text, afterColon)
        endPlain == SkipSpace(text, n + 1)
    IN  IF ~StartsAt(text, 1, prefs.next_label) THEN 0
        ELSE IF endColon > afterColon THEN endColon - 1
        ELSE IF endPlain > n + 1 THEN endPlain - 1
        ELSE 0

\* a compiled subtree expression ('|'.join(map(re.escape, parts))) applied with
\* .match(name): some part is a prefix of the name
subtree_match(pref, name) ==
    \E k \in 1..Len(SplitComma(pref)) : StartsAt(name, 1, SplitComma(pref)[k])

\* self.included_re / self.excluded_re are None for an empty preference
included_set(prefs) == prefs.included_subtrees # <<>>
excluded_set(prefs) == prefs.excluded_subtrees # <<>>

(***************************************************************************)
(* _parse_task                                                             *)
(***************************************************************************)

IsDigit(c) == c \in {"0", "1", "2", "3", "4", "5", "6", "7", "8", "9"}

\* zim.parsing.parse_date on the text of a "[d:...]" directive, followed by
\* '%04i-%02i-%02i' % mydate: the date as yyyy-mm-dd, or None.  The directive
\* syntax taken is [d:yyyy-mm-dd].
parse_date(directive) ==
    LET d == Strip(directive)
        v == SubSeq(d, 4, Len(d) - 1)
    IN  IF /\ Len(v) = 10
           /\ \A i \in {1, 2, 3, 4, 6, 7, 9, 10} : IsDigit(v[i])
           /\ v[5] = "-" /\ v[8] = "-"
        THEN v ELSE None

\* positions of ']' in text
LastBracket(text) ==
    LET ps == {i \in 1..Len(text) : text[i] = "]"}
    IN  IF ps = {} THEN 0 ELSE CHOOSE i \in ps : \A j \in ps : j <= i

\* date_re (r'\s*\[d:(.+)\]') searched in text: [from, to] of the leftmost
\* match, the greedy (.+) running to the last ']'; from = 0 when there is none
date_re_search(text) ==
    LET last == LastBracket(text)
        starts == {i \in 1..Len(text) :
                     /\ StartsAt(text, SkipSpace(text, i), <<"[", "d", ":">>)
                     /\ SkipSpace(text, i) + 3 < last}
    IN  IF starts = {} THEN [from |-> 0, to |-> 0]
        ELSE [from |-> CHOOSE i \in starts : \A j \in starts : i <= j, to |-> last]

\* tags: 'if not tag in text: text += ' ' + tag' for each global tag
RECURSIVE add_tags(_, _)
add_tags(text, tags) ==
    IF tags = <<>> THEN text
    ELSE add_tags(IF Contains(text, tags[1]) THEN text ELSE text \o <<" ">> \o tags[1],
                  Tail(tags))

\* _parse_task(text, open, tags, defaultdate, defaultprio, tasks): the task
\* tuple (open, actionable, prio, due, description).  defaultprio None is 0.
parse_task(prefs, text, open, tags, defaultdate, defaultprio, tasks) ==
    LET \* 'return (open, actionable, prio, date, text)'
        result(prio, date, text2) ==
            [open |-> open,
             actionable |-> IF next_label_match(prefs, text2) > 0
                            THEN ~(tasks # <<>> /\ tasks[Len(tasks)][1].open)
                            ELSE TRUE,
             prio |-> prio,
             due |-> IF defaultdate # None /\ date = NO_DATE THEN defaultdate ELSE date,
             description |-> text2]
        \* set_date on the match m: a parsed date is taken and the directive
        \* removed
        set_date(prio, tagged, m, mydate) ==
            result(prio,
                   IF mydate # None THEN mydate ELSE NO_DATE,
                   IF mydate # None
                   THEN SubSeq(tagged, 1, m.from - 1) \o Tail_(tagged, m.to + 1)
                   ELSE tagged)
        \* date_re.sub(set_date, text)
        sub_date(prio, tagged, m) ==
            set_date(prio, tagged, m,
                     IF m.from = 0 THEN None
                     ELSE parse_date(SubSeq(tagged, m.from, m.to)))
        with_tags(prio, tagged) == sub_date(prio, tagged, date_re_search(tagged))
        with_prio(count) ==
            with_tags(IF defaultprio # 0 /\ count = 0 THEN defaultprio ELSE count,
                      add_tags(text, tags))
    IN  with_prio(CountBang(text))

(***************************************************************************)
(* _extract_tasks                                                          *)
(*                                                                         *)
(* A page's parse tree is the sequence of its paragraphs, each paragraph   *)
(* the item list _flatten_para returns for it: a text line                 *)
(* [kind |-> "line", text] or a list entry                                 *)
(* [kind |-> "item", bullet, level, text].  A task list is the nested      *)
(* python list of (task, children) pairs: a sequence of <<task, children>>.*)
(* A stack entry keeps, for its CHILDREN list, the path of that list in    *)
(* the task list (the python code keeps a reference to it).                *)
(***************************************************************************)

\* the children list found by following path (indexes) from the list tasks
RECURSIVE ChildrenAt(_, _)
ChildrenAt(tasks, path) ==
    IF path = <<>> THEN tasks ELSE ChildrenAt(tasks[path[1]][2], Tail(path))

\* list.append(node) on the list found by following path
RECURSIVE AppendAt(_, _, _)
AppendAt(tasks, path, node) ==
    IF path = <<>> THEN Append(tasks, node)
    ELSE [tasks EXCEPT ![path[1]] = <<@[1], AppendAt(@[2], Tail(path), node)>>]

\* pop_stack leaving the entries of the level of the item on the stack
RECURSIVE pop_stack_deeper(_, _)
pop_stack_deeper(stack, list_level) ==
    IF stack # <<>> /\ stack[Len(stack)].level > list_level
    THEN pop_stack_deeper(SubSeq(stack, 1, Len(stack) - 1), list_level)
    ELSE stack

\* while stack and stack[-1][LEVEL] >= list_level: stack.pop()
RECURSIVE pop_stack(_, _)
pop_stack(stack, list_level) ==
    IF stack # <<>> /\ stack[Len(stack)].level >= list_level
    THEN pop_stack(SubSeq(stack, 1, Len(stack) - 1), list_level)
    ELSE stack

\* the header test on lines[0]: every word after the first starts with '@'
\* (for ... else); the global tags when it is a header
header_words(line) == Tail(Split(StripColons(line)))

is_header(prefs, lines) ==
    /\ Len(lines) >= 2
    /\ lines[1].kind = "line"
    /\ lines[2].kind = "item"
    /\ task_labels(prefs) # <<>>
    /\ task_label_match(prefs, lines[1].text).found
    /\ \A k \in 1..Len(header_words(lines[1].text)) :
          header_words(lines[1].text)[k][1] = "@"

\* stack_defaultdate handing down the defaultdate of the call only
stack_defaultdate_document(top, defaultdate) == defaultdate

\* mydefaultdate of a task under the stack entry top: the date of its task,
\* the defaultdate of the call when that is _NO_DATE
stack_defaultdate(top, defaultdate) ==
    IF top.task.due = NO_DATE THEN defaultdate ELSE top.task.due

\* stack_defaultprio handing down no priority
stack_defaultprio_none(top) == 0

\* mydefaultprio of a task under the stack entry top
stack_defaultprio(top) == top.task.prio

\* extract_line leaving the stack as it is
extract_line_keep_stack(prefs, st, item, globaltags, defaultdate) ==
    IF task_labels(prefs) # <<>> /\ task_label_match(prefs, item.text).found
    THEN [tasks |-> Append(st.tasks,
                      <<parse_task(prefs, item.text, TRUE, globaltags,
                                   defaultdate, 0, st.tasks), <<>>>>),
          stack |-> st.stack]
    ELSE [tasks |-> st.tasks, stack |-> st.stack]

\* a normal line, outside a list: the stack is emptied, and a line that starts
\* with a label is a task of the top level
extract_line(prefs, st, item, globaltags, defaultdate) ==
    IF task_labels(prefs) # <<>> /\ task_label_match(prefs, item.text).found
    THEN [tasks |-> Append(st.tasks,
                      <<parse_task(prefs, item.text, TRUE, globaltags,
                                   defaultdate, 0, st.tasks), <<>>>>),
          stack |-> <<>>]
    ELSE [tasks |-> st.tasks, stack |-> <<>>]

\* one pass of "for item in lines" on st = [tasks, stack]
extract_item(prefs, st, item, istasklist, globaltags, defaultdate) ==
    LET istask ==
           \/ /\ item.bullet \in {UNCHECKED_BOX, CHECKED_BOX, XCHECKED_BOX}
              /\ (istasklist \/ prefs.all_checkboxes)
           \/ /\ task_labels(prefs) # <<>>
              /\ task_label_match(prefs, item.text).found
        open == item.bullet \notin {CHECKED_BOX, XCHECKED_BOX}
        \* the task appended to mytasks, the list at mypath, and pushed
        appended(stack, mypath, mytasks, task) ==
            [tasks |-> AppendAt(st.tasks, mypath, <<task, <<>>>>),
             stack |-> Append(stack, [level |-> item.level, task |-> task,
                                      path |-> Append(mypath, Len(mytasks) + 1)])]
        parsed(stack, mydefaultdate, mydefaultprio, mypath, mytasks) ==
            appended(stack, mypath, mytasks,
                     parse_task(prefs, item.text, open, globaltags,
                                mydefaultdate, mydefaultprio, mytasks))
        \* mytasks = stack[-1][CHILDREN] or tasks
        task_item(stack, mydefaultdate, mydefaultprio, mypath) ==
            parsed(stack, mydefaultdate, mydefaultprio, mypath,
                   ChildrenAt(st.tasks, mypath))
        \* date and prio inherited from the top of the stack
        inherited(stack, top) ==
            task_item(stack, stack_defaultdate(top, defaultdate), stack_defaultprio(top),
                      top.path)
        popped(stack) ==
            IF ~istask THEN [tasks |-> st.tasks, stack |-> stack]
            ELSE IF stack # <<>> THEN inherited(stack, stack[Len(stack)])
            ELSE task_item(stack, defaultdate, 0, <<>>)
    IN  IF item.kind = "item"
        THEN popped(pop_stack(st.stack, item.level))
        ELSE extract_line(prefs, st, item, globaltags, defaultdate)

RECURSIVE extract_lines(_, _, _, _, _, _)
extract_lines(prefs, st, lines, istasklist, globaltags, defaultdate) ==
    IF lines = <<>> THEN st
    ELSE extract_lines(prefs,
            extract_item(prefs, st, lines[1], istasklist, globaltags, defaultdate),
            Tail(lines), istasklist, globaltags, defaultdate)

\* one pass of "for node in parsetree.findall('p')"
extract_para(prefs, tasks, lines, defaultdate) ==
    LET header == is_header(prefs, lines)
        globaltags == IF header THEN header_words(lines[1].text) ELSE <<>>
        body == IF header THEN Tail(lines) ELSE lines
    IN  extract_lines(prefs, [tasks |-> tasks, stack |-> <<>>], body,
                      header, globaltags, defaultdate).tasks

RECURSIVE extract_paras(_, _, _, _)
extract_paras(prefs, tasks, paras, defaultdate) ==
    IF paras = <<>> THEN tasks
    ELSE extract_paras(prefs, extract_para(prefs, tasks, paras[1], defaultdate),
                       Tail(paras), defaultdate)

\* _extract_tasks(parsetree, defaultdate)
extract_tasks(prefs, parsetree, defaultdate) ==
    extract_paras(prefs, <<>>, parsetree, defaultdate)

(***************************************************************************)
(* The "tasklist" table (SQL_CREATE_TABLES) and the plugin's handlers      *)
(***************************************************************************)

VARIABLES
    preferences,     \* self.preferences of the plugin
    db_initialized,  \* self.db_initialized
    tasklist,        \* the committed rows of table "tasklist"
    call,            \* the index_page call in progress, between its two commits
    last,            \* the handler call that returned (or raised) last
    reload,          \* show_task_list is waiting for ui.reload_index to return
    dialog,          \* the TaskListDialog exists: its task_list and tag_list
    real_model,      \* TaskListTreeView.real_model: the rows of the tree store
    filter,          \* TaskListTreeView.filter
    tag_filter,      \* TaskListTreeView.tag_filter
    label_filter,    \* TaskListTreeView.label_filter
    filter_actionable, \* TaskListTreeView.filter_actionable
    tag_count,       \* TaskListTreeView._tags
    label_count,     \* TaskListTreeView._labels
    view_raised,     \* the last call on the dialog raised
    callback,        \* the DelayedCallback of the dialog waits for its timeout
    extraction,      \* the locals of the _extract_tasks call in progress
    origin           \* for every task of extraction.tasks, the item it was made of

store_vars == <<preferences, db_initialized, tasklist, call, last, reload>>

view_vars == <<dialog, real_model, filter, tag_filter, label_filter, filter_actionable,
               tag_count, label_count, view_raised, callback>>

extract_vars == <<extraction, origin>>

vars == <<store_vars, view_vars, extract_vars>>

\* id INTEGER PRIMARY KEY: sqlite gives a new row one more than the largest id
lastrowid(rows) ==
    IF rows = {} THEN 1
    ELSE (CHOOSE i \in {r.id : r \in rows} : \A r \in rows : r.id <= i) + 1

\* task_row writing haschildren = False for every row
task_row_nochildren(rows, pageid, parentid, node) ==
    [id |-> lastrowid(rows), source |-> pageid, parent |-> parentid,
     haschildren |-> FALSE,
     open |-> node[1].open, actionable |-> node[1].actionable, prio |-> node[1].prio,
     due |-> node[1].due, description |-> node[1].description]

\* the row _insert writes for task under parentid
task_row(rows, pageid, parentid, node) ==
    [id |-> lastrowid(rows), source |-> pageid, parent |-> parentid,
     haschildren |-> node[2] # <<>>,
     open |-> node[1].open, actionable |-> node[1].actionable, prio |-> node[1].prio,
     due |-> node[1].due, description |-> node[1].description]

\* _insert(page, parentid, children): the table with the rows added
RECURSIVE insert(_, _, _, _)
insert(rows, pageid, parentid, children) ==
    IF children = <<>> THEN rows
    ELSE LET row == task_row(rows, pageid, parentid, children[1])
             grandchildren == children[1][2]
             rows1 == rows \cup {row}
             rows2 == IF grandchildren # <<>>
                      THEN insert(rows1, pageid, row.id, grandchildren)
                      ELSE rows1
         IN  insert(rows2, pageid, parentid, Tail(children))

\* the rows of a page
rows_of(rows, pageid) == {r \in rows : r.source = pageid}

\* delete_source deleting the top-level rows of the page only
delete_source_top(rows, pageid) == {r \in rows : r.source # pageid \/ r.parent # 0}

\* 'delete from tasklist where source=?'
delete_source(rows, pageid) == {r \in rows : r.source # pageid}

\* 'select * from tasklist where parent=?' of list_tasks, in rowid order
RECURSIVE ById(_)
ById(rows) ==
    IF rows = {} THEN <<>>
    ELSE LET first == CHOOSE r \in rows : \A q \in rows : r.id <= q.id
         IN  <<first>> \o ById(rows \ {first})

list_tasks(initialized, rows, parentid) ==
    IF initialized THEN ById({r \in rows : r.parent = parentid}) ELSE <<>>

\* 'with index.db_commit:' around statements: they become visible together
\* when the block ends, and not at all when it is left by an exception
db_commit(committed, pending, raised) == IF raised THEN committed ELSE pending

\* the included / excluded test at the head of index_page: TRUE when the page
\* is skipped
not_indexed(prefs, name) ==
    /\ included_set(prefs)
    /\ \/ ~subtree_match(prefs.included_subtrees, name)
       \/ excluded_set(prefs) /\ subtree_match(prefs.excluded_subtrees, name)

(***************************************************************************)
(* Pages, page contents and preference settings the handlers are called    *)
(* with                                                                    *)
(***************************************************************************)

\* number of pages of the notebook
NumPages == 2

\* number of sample contents (of AllTrees) a page is indexed with
NumTrees == 3

\* largest row id the table reaches: index_page is not called beyond it
MaxRowId == 8

\* path.id of the pages
Pages == 1..NumPages

\* path.name of a page
PageName(p) ==
    CASE p = 1 -> <<"a", "b">>
      [] p = 2 -> <<"b">>
      [] OTHER -> <<"a">>

\* a labelled text line with a priority and a due date, then a task with a
\* child and a grandchild (check boxes at levels 0, 1, 2)
DocChain ==
    <<
       <<[kind |-> "line", text |-> <<"T", " ", "!", " ", "x", " ", "[", "d", ":", "2", "0", "2", "4", "-", "0", "3", "-", "0", "1", "]">>],
         [kind |-> "item", bullet |-> UNCHECKED_BOX, level |-> 0, text |-> <<"T", " ", "x">>],
         [kind |-> "item", bullet |-> UNCHECKED_BOX, level |-> 1, text |-> <<"x", " ", "@", "a">>],
         [kind |-> "item", bullet |-> UNCHECKED_BOX, level |-> 2, text |-> <<"y", " ", "@", "b", " ", "!">>]>>
    >>

\* a closed task with an open child, then two "next" tasks
DocClosed ==
    <<
       <<[kind |-> "item", bullet |-> CHECKED_BOX, level |-> 0, text |-> <<"x">>],
         [kind |-> "item", bullet |-> UNCHECKED_BOX, level |-> 1, text |-> <<"x", " ", "@", "A">>],
         [kind |-> "item", bullet |-> UNCHECKED_BOX, level |-> 0, text |-> <<"N", ":", " ", "x", " ", "@", "A">>],
         [kind |-> "item", bullet |-> UNCHECKED_BOX, level |-> 0, text |-> <<"N", ":", " ", "b", " ", "@", "b">>]>>
    >>

\* a task with a child, then another task: three open tasks that carry the
\* same tag in three letter cases
DocVariants ==
    <<
       <<[kind |-> "item", bullet |-> UNCHECKED_BOX, level |-> 0, text |-> <<"b", " ", "@", "a", "b">>],
         [kind |-> "item", bullet |-> UNCHECKED_BOX, level |-> 1, text |-> <<"x", " ", "@", "A", "b">>],
         [kind |-> "item", bullet |-> UNCHECKED_BOX, level |-> 0, text |-> <<"x", " ", "@", "a", "B">>]>>
    >>

\* a page without tasks
DocPlain ==
    <<
       <<[kind |-> "line", text |-> <<"x">>]>>
    >>

\* a page with one open and one closed unlabelled check box
DocBoxes ==
    <<
       <<[kind |-> "item", bullet |-> UNCHECKED_BOX, level |-> 0, text |-> <<"b">>],
         [kind |-> "item", bullet |-> XCHECKED_BOX, level |-> 0, text |-> <<"x">>]>>
    >>

\* the sample contents
AllTrees == <<DocChain, DocClosed, DocVariants, DocPlain, DocBoxes>>

\* the most tasks one of the sample contents holds
MaxForest == 4

\* the page objects index_page is called with: page 0 has no content, page i
\* holds the sample content i
PageVersions == 0..NumTrees

\* page.get_parsetree(): None for a page without content
get_parsetree(page) == IF page = 0 THEN None ELSE AllTrees[page]

\* plugin_preferences with the labels 'T' and next label 'N' (for 'TODO' and
\* 'Next:'), and the settings of the subtree preferences
Prefs(included, excluded) ==
    [all_checkboxes |-> TRUE, tag_by_page |-> FALSE, deadline_by_page |-> FALSE,
     labels |-> <<"T">>, next_label |-> <<"N">>,
     included_subtrees |-> included, excluded_subtrees |-> excluded]

\* the settings the preferences dialog leaves: the subtree preferences, which
\* the table is rebuilt for, and tag_by_page, which it is not rebuilt for
PrefChoices ==
    {Prefs(i, e) : i \in {<<>>, <<"a">>}, e \in {<<>>, <<"a", "b">>}}
    \cup {[Prefs(<<>>, <<>>) EXCEPT !.tag_by_page = TRUE]}

\* str(value) of a boolean preference
str_bool(b) == IF b THEN <<"T", "r", "u", "e">> ELSE <<"F", "a", "l", "s", "e">>

\* _serialize_rebuild_on_preferences(): the values of _rebuild_on_preferences
\* one after the other in one string
serialize_rebuild_on_preferences(prefs) ==
    str_bool(prefs.all_checkboxes) \o prefs.labels \o prefs.next_label
    \o str_bool(prefs.deadline_by_page)
    \o prefs.included_subtrees \o prefs.excluded_subtrees

\* zim.plugins.calendar.daterange_from_path(path)[2]: the last day of a
\* calendar page, None for any other page; no page of the model is one
daterange_from_path(p) == None

(***************************************************************************)
(* Handlers of TaskListPlugin                                              *)
(***************************************************************************)

NoCall == [op |-> "none"]
\* no page: page.get_parsetree() gives None
NoPage == 0

Returned(op, p, page, before, ret, emitted) ==
    [op |-> op, path |-> p, page |-> page, before |-> before,
     ret |-> ret, emitted |-> emitted, raised |-> FALSE]

Raised(op, p, page, before) ==
    [op |-> op, path |-> p, page |-> page, before |-> before,
     ret |-> "raised", emitted |-> FALSE, raised |-> TRUE]

\* self.emit('tasklist-changed') when emitted: the signal starts the
\* DelayedCallback the dialog connected to it; nothing is connected while no
\* dialog exists
emit_tasklist_changed(emitted) ==
    /\ callback' = (callback \/ (emitted /\ dialog))
    /\ UNCHANGED <<dialog, real_model, filter, tag_filter, label_filter,
                   filter_actionable, tag_count, label_count, view_raised>>

\* initialize_db (signal 'initialize-db'): create the table if it is not there
initialize_db ==
    /\ call = NoCall
    /\ ~db_initialized
    /\ db_initialized' = TRUE
    /\ last' = Returned("initialize_db", 0, NoPage, {}, "None", FALSE)
    /\ UNCHANGED <<preferences, tasklist, call, reload>>
    /\ UNCHANGED view_vars
    /\ UNCHANGED extract_vars

\* _drop_table(): 'DROP TABLE "tasklist"'; when the statement raises the table
\* stays as it is and db_initialized is not reset. A dropped table is the
\* table without rows: nothing reads it before initialize_db makes it again.
drop_table(initialized, rows, drop_raises) ==
    [db_initialized |-> initialized /\ drop_raises,
     tasklist |-> IF drop_raises THEN rows ELSE {}]

\* do_preferences_changed() after the preferences were set to prefs:
\* _drop_table when the rebuild preferences differ from _current_preferences,
\* then _set_preferences
do_preferences_changed(prefs, drop_raises) ==
    /\ call = NoCall
    /\ LET set(table) ==
              /\ tasklist' = table.tasklist
              /\ db_initialized' = table.db_initialized
       IN  IF serialize_rebuild_on_preferences(prefs)
                 # serialize_rebuild_on_preferences(preferences)
           THEN set(drop_table(db_initialized, tasklist, drop_raises))
           ELSE UNCHANGED <<tasklist, db_initialized>>
    /\ preferences' = prefs
    /\ last' = Returned("do_preferences_changed", 0, NoPage, {}, "None", FALSE)
    /\ UNCHANGED <<call, reload>>
    /\ UNCHANGED view_vars
    /\ UNCHANGED extract_vars

\* disconnect(): _drop_table, then PluginClass.disconnect
disconnect(drop_raises) ==
    /\ call = NoCall
    /\ LET set(table) ==
              /\ tasklist' = table.tasklist
              /\ db_initialized' = table.db_initialized
       IN  set(drop_table(db_initialized, tasklist, drop_raises))
    /\ last' = Returned("disconnect", 0, NoPage, {}, "None", FALSE)
    /\ UNCHANGED <<preferences, call, reload>>
    /\ UNCHANGED view_vars
    /\ UNCHANGED extract_vars

\* show_task_list() on a table that is not initialized, up to the call of
\* ui.reload_index(flush=True): the handlers of the plugin run while the
\* index is rebuilt
show_task_list_reload ==
    /\ call = NoCall
    /\ ~reload
    /\ ~db_initialized
    /\ reload' = TRUE
    /\ UNCHANGED <<preferences, db_initialized, tasklist, call, last>>
    /\ UNCHANGED view_vars
    /\ UNCHANGED extract_vars

\* remove_page(index, path): returns tasksfound, None when not initialized
remove_page(p) ==
    /\ call = NoCall
    /\ IF ~db_initialized
       THEN /\ last' = Returned("remove_page", p, NoPage, rows_of(tasklist, p), "None", FALSE)
            /\ UNCHANGED tasklist
       ELSE LET tasksfound == \E r \in tasklist : r.source = p
            IN  /\ tasklist' = db_commit(tasklist, delete_source(tasklist, p), FALSE)
                /\ last' = Returned("remove_page", p, NoPage, rows_of(tasklist, p),
                                    IF tasksfound THEN "True" ELSE "False", tasksfound)
    /\ emit_tasklist_changed(last'.emitted)
    /\ UNCHANGED <<preferences, db_initialized, call, reload>>
    /\ UNCHANGED extract_vars

\* index_page(index, path, page) up to the commit of
\* remove_page(index, path, _emit=False); returns at once when not initialized
index_page_remove(p, page) ==
    /\ call = NoCall
    /\ \A r \in delete_source(tasklist, p) : r.id + MaxForest <= MaxRowId
    /\ IF ~db_initialized
       THEN /\ last' = Returned("index_page", p, page, rows_of(tasklist, p), "None", FALSE)
            /\ UNCHANGED <<tasklist, call>>
       ELSE /\ tasklist' = db_commit(tasklist, delete_source(tasklist, p), FALSE)
            /\ call' = [op |-> "index_page", path |-> p, page |-> page,
                        before |-> rows_of(tasklist, p),
                        tasksfound |-> \E r \in tasklist : r.source = p]
            /\ UNCHANGED last
    /\ UNCHANGED <<preferences, db_initialized, reload>>
    /\ UNCHANGED view_vars
    /\ UNCHANGED extract_vars

\* the deadline index_page passes to _extract_tasks
deadline(prefs, p) ==
    IF daterange_from_path(p) # None /\ prefs.deadline_by_page
    THEN daterange_from_path(p) ELSE None

\* the tasks index_page inserts for the page: none when the page is skipped
\* or has no parse tree
page_tasks(prefs, p, page) ==
    IF not_indexed(prefs, PageName(p)) THEN <<>>
    ELSE IF get_parsetree(page) = None THEN <<>>
    ELSE extract_tasks(prefs, get_parsetree(page), deadline(prefs, p))

\* the rest of index_page, from the subtree tests to its return
index_page_insert ==
    /\ call # NoCall
    /\ LET inserted(tasks) ==
              /\ tasklist' = IF tasks # <<>>
                             THEN db_commit(tasklist,
                                            insert(tasklist, call.path, 0, tasks), FALSE)
                             ELSE tasklist
              /\ last' = Returned("index_page", call.path, call.page, call.before,
                                  "None", tasks # <<>>)
       IN  inserted(page_tasks(preferences, call.path, call.page))
    /\ emit_tasklist_changed(last'.emitted)
    /\ call' = NoCall
    /\ UNCHANGED <<preferences, db_initialized, reload>>
    /\ UNCHANGED extract_vars

\* index_page left by an exception after remove_page: raised by
\* page.get_parsetree(), by _extract_tasks or by _insert
index_page_raise(where) ==
    /\ call # NoCall
    /\ ~not_indexed(preferences, PageName(call.path))
    /\ where \in {"_extract_tasks", "_insert"} => get_parsetree(call.page) # None
    /\ where = "_insert" =>
          page_tasks(preferences, call.path, call.page) # <<>>
    /\ tasklist' = IF where = "_insert"
                   THEN db_commit(tasklist,
                           insert(tasklist, call.path, 0,
                             <<page_tasks(preferences, call.path, call.page)[1]>>), TRUE)
                   ELSE tasklist
    /\ last' = Raised("index_page", call.path, call.page, call.before)
    /\ call' = NoCall
    /\ UNCHANGED <<preferences, db_initialized, reload>>
    /\ UNCHANGED view_vars
    /\ UNCHANGED extract_vars

(***************************************************************************)
(* TaskListTreeView: the tree store, refresh and the filter                *)
(*                                                                         *)
(* real_model is the sequence of the rows of the gtk.TreeStore in the      *)
(* order they were appended; a row holds the columns VIS_COL .. TAGS_COL   *)
(* and, as parent, the position of its parent row (0 at the top level).    *)
(***************************************************************************)

SPAN_TAG == <<"<", "s", "p", "a", "n", " ", "c", "o", "l", "o", "r", "=", "\"", "#", "c", "e", "5", "c", "0", "0", "\"", ">">>
SPAN_GREY == <<"<", "s", "p", "a", "n", " ", "c", "o", "l", "o", "r", "=", "\"", "d", "a", "r", "k", "g", "r", "e", "y", "\"", ">">>
SPAN_END == <<"<", "/", "s", "p", "a", "n", ">">>
BOLD == <<"<", "b", ">">>
BOLD_END == <<"<", "/", "b", ">">>

\* zim.gui.widgets.encode_markup_text: '&', '<' and '>' as entities
RECURSIVE encode_markup_text(_)
encode_markup_text(s) ==
    IF s = <<>> THEN <<>>
    ELSE (CASE s[1] = "&" -> <<"&", "a", "m", "p", ";">>
            [] s[1] = "<" -> <<"&", "l", "t", ";">>
            [] s[1] = ">" -> <<"&", "g", "t", ";">>
            [] OTHER -> <<s[1]>>) \o encode_markup_text(Tail(s))

\* tag_re.sub(r'<span color="#ce5c00">@\1</span>', s)
RECURSIVE highlight_tags_from(_, _)
highlight_tags_from(s, i) ==
    IF i > Len(s) THEN <<>>
    ELSE IF tag_re_at(s, i) > 0
         THEN SPAN_TAG \o SubSeq(s, i, tag_re_at(s, i) - 1) \o SPAN_END
              \o highlight_tags_from(s, tag_re_at(s, i))
         ELSE <<s[i]>> \o highlight_tags_from(s, i + 1)

highlight_tags(s) == highlight_tags_from(s, 1)

\* self.plugin.task_label_re.sub(r'<b>\1</b>', s)
highlight_labels(prefs, s) ==
    LET m == task_label_match(prefs, s)
    IN  IF task_labels(prefs) # <<>> /\ m.found
        THEN BOLD \o m.label \o BOLD_END \o Tail_(s, Len(m.label) + 1)
        ELSE s

\* the text of TASK_COL that _append_tasks makes of a row's description
task_markup(prefs, row) ==
    LET encoded == encode_markup_text(row.description)
        plain == sub_exclamation(encoded)
        nonext == Tail_(plain, next_label_match(prefs, plain) + 1)
    IN  IF row.actionable
        THEN highlight_labels(prefs, highlight_tags(nonext))
        ELSE SPAN_GREY \o nonext \o SPAN_END

\* path.parts: the names between the ':' of a page name
RECURSIVE path_parts_from(_, _, _)
path_parts_from(s, i, part) ==
    IF i > Len(s) THEN <<part>>
    ELSE IF s[i] = ":" THEN <<part>> \o path_parts_from(s, i + 1, <<>>)
    ELSE path_parts_from(s, i + 1, Append(part, s[i]))

path_parts(name) == path_parts_from(name, 1, <<>>)

\* the tags of TAGS_COL
row_tags(prefs, row) ==
    tag_re_findall(row.description)
    \o (IF prefs.tag_by_page THEN path_parts(PageName(row.source)) ELSE <<>>)

\* d[k] = d.get(k, 0) + 1 on a python dict
Count(d, k) ==
    [x \in DOMAIN d \cup {k} |->
        IF x = k THEN (IF k \in DOMAIN d THEN d[k] ELSE 0) + 1 ELSE d[x]]

RECURSIVE CountAll(_, _)
CountAll(d, ks) == IF ks = <<>> THEN d ELSE CountAll(Count(d, ks[1]), Tail(ks))

\* the filter settings _filter_item reads
Filters(f, tf, lf, fa) ==
    [filter |-> f, tag_filter |-> tf, label_filter |-> lf, filter_actionable |-> fa]

\* _filter_item(modelrow)
filter_item(filt, modelrow) ==
    LET description == Lower(modelrow.task)
        pagename == Lower(modelrow.page)
        tags == modelrow.tags
        \* 'if (not inverse and not match) or (inverse and match): visible = False'
        matched(match) ==
            ~((~filt.filter.inverse /\ ~match) \/ (filt.filter.inverse /\ match))
        by_filter(visible) ==
            IF visible /\ filt.filter.on
            THEN matched(\/ Contains(description, filt.filter.string)
                         \/ Contains(pagename, filt.filter.string))
            ELSE visible
        by_tags(visible) ==
            by_filter(IF visible /\ filt.tag_filter # <<>>
                      THEN \/ (\E k \in 1..Len(filt.tag_filter) :
                                  filt.tag_filter[k] = NO_TAGS)
                              /\ tags = <<>>
                           \/ \E k \in 1..Len(filt.tag_filter) :
                                 \E j \in 1..Len(tags) : filt.tag_filter[k] = tags[j]
                      ELSE visible)
        by_labels(visible) ==
            by_tags(IF visible /\ filt.label_filter # <<>>
                    THEN \E k \in 1..Len(filt.label_filter) :
                            Contains(description, filt.label_filter[k])
                    ELSE visible)
    IN  by_labels(~(~modelrow.open \/ (~modelrow.act /\ filt.filter_actionable)))

\* rows.sort(key=lambda r: path_cache[r['source']].name): a stable sort
RECURSIVE sort_insert(_, _)
sort_insert(sorted, row) ==
    IF sorted = <<>> THEN <<row>>
    ELSE IF TextLess(PageName(row.source), PageName(sorted[Len(sorted)].source))
         THEN Append(sort_insert(SubSeq(sorted, 1, Len(sorted) - 1), row),
                     sorted[Len(sorted)])
         ELSE Append(sorted, row)

RECURSIVE sort_by_page(_)
sort_by_page(rows) ==
    IF rows = <<>> THEN <<>>
    ELSE sort_insert(sort_by_page(SubSeq(rows, 1, Len(rows) - 1)), rows[Len(rows)])

\* the row _append_tasks appends for a row of the table
model_row(ctx, row, iter) ==
    LET filtered(cols) == [cols EXCEPT !.vis = filter_item(ctx.filt, cols)]
    IN  filtered([vis |-> FALSE, prio |-> row.prio,
                  task |-> task_markup(ctx.prefs, row),
                  date |-> row.due, page |-> PageName(row.source),
                  act |-> row.actionable, open |-> row.open, taskid |-> row.id,
                  tags |-> row_tags(ctx.prefs, row), parent |-> iter])

\* _append_tasks(task, iter, path_cache) on st = [model, tags, labels]; ctx
\* holds what it reads: the preferences, the table and the filter settings.
\* Every source of the table is a page of the notebook (get_path finds it).
RECURSIVE append_tasks(_, _, _, _)
RECURSIVE append_rows(_, _, _, _)
append_rows(st, ctx, rows, iter) ==
    IF rows = <<>> THEN st
    ELSE LET row == rows[1]
             \* 'if row['haschildren']: self._append_tasks(row, myiter, path_cache)'
             children(st1) ==
                 IF row.haschildren
                 THEN append_tasks(st1, ctx, row.id, Len(st1.model))
                 ELSE st1
             \* the label and tag counts, then the row appended
             appended(m, tags) ==
                 CHOOSE r \in {children(st1) : st1 \in
                     {[model |-> Append(st.model, model_row(ctx, row, iter)),
                       tags |-> IF tags # <<>> THEN CountAll(st.tags, tags)
                                ELSE Count(st.tags, NO_TAGS),
                       labels |-> IF m.found THEN Count(st.labels, m.label)
                                  ELSE st.labels]}} : TRUE
         IN  IF ~row.open
             THEN append_rows(st, ctx, Tail(rows), iter)
             ELSE \* the rows that follow are appended to the store as it is then
                  CHOOSE r \in {append_rows(st2, ctx, Tail(rows), iter) : st2 \in
                      {appended(task_label_match(ctx.prefs, row.description),
                                row_tags(ctx.prefs, row))}} : TRUE

append_tasks(st, ctx, parentid, iter) ==
    append_rows(st, ctx,
                sort_by_page(list_tasks(ctx.initialized, ctx.rows, parentid)), iter)

\* the positions of real_model in the order gtk.TreeStore.foreach visits them:
\* depth first, a row before its children
RECURSIVE foreach_order(_, _, _)
foreach_order(model, parent, from) ==
    IF from > Len(model) THEN <<>>
    ELSE IF model[from].parent = parent
         THEN <<from>> \o foreach_order(model, from, 1)
                       \o foreach_order(model, parent, from + 1)
         ELSE foreach_order(model, parent, from + 1)

\* show_parents stopping at the parent of the row
show_parents_once(model, parent) ==
    IF parent = 0 THEN model ELSE [model EXCEPT ![parent].vis = TRUE]

\* 'while parent: model[parent][VIS_COL] = visible' from the parent of a row up
RECURSIVE show_parents(_, _)
show_parents(model, parent) ==
    IF parent = 0 THEN model
    ELSE show_parents([model EXCEPT ![parent].vis = TRUE], model[parent].parent)

\* the function filter(model, path, iter) of _eval_filter on one row
eval_filter_row(filt, model, i) ==
    LET marked(visible) ==
            IF visible
            THEN show_parents([model EXCEPT ![i].vis = visible], model[i].parent)
            ELSE [model EXCEPT ![i].vis = visible]
    IN  marked(filter_item(filt, model[i]))

RECURSIVE eval_filter_rows(_, _, _)
eval_filter_rows(filt, model, order) ==
    IF order = <<>> THEN model
    ELSE \* the rows that follow see the model as the function left it
         CHOOSE r \in {eval_filter_rows(filt, m, Tail(order)) :
                          m \in {eval_filter_row(filt, model, order[1])}} : TRUE

\* _eval_filter(): self.real_model.foreach(filter)
eval_filter(filt, model) ==
    eval_filter_rows(filt, model, foreach_order(model, 0, 1))

\* python (a, b) < (c, d) on pairs of texts
PairLess(x, y) == TextLess(x[1], y[1]) \/ (x[1] = y[1] /\ TextLess(x[2], y[2]))

\* sorted(pairs)
RECURSIVE SortedPairs(_)
SortedPairs(pairs) ==
    IF pairs = {} THEN <<>>
    ELSE LET first == CHOOSE x \in pairs : \A y \in pairs : ~PairLess(y, x)
         IN  <<first>> \o SortedPairs(pairs \ {first})

\* the loop of refresh that makes the tags case insensitive, on the dict d;
\* raised when self._tags[prev[1]] is a KeyError
RECURSIVE merge_tags(_, _, _)
merge_tags(d, prev, tags) ==
    IF tags = <<>> THEN [tags |-> d, raised |-> FALSE]
    ELSE LET tag == tags[1]
         IN  IF tag[1] = prev[1]
             THEN IF prev[2] \notin DOMAIN d
                  THEN [tags |-> d, raised |-> TRUE]
                  ELSE merge_tags([x \in DOMAIN d \ {tag[2]} |->
                                      IF x = prev[2] THEN d[x] + d[tag[2]] ELSE d[x]],
                                  tag, Tail(tags))
             ELSE merge_tags(d, tag, Tail(tags))

\* refresh(): _clear, _append_tasks(None, None, {}), the tag loop and
\* _eval_filter; what the view holds afterwards
refreshed(prefs, initialized, rows, filt) ==
    LET set_view(st, merged) ==
            [model |-> IF merged.raised THEN st.model ELSE eval_filter(filt, st.model),
             tags |-> merged.tags, labels |-> st.labels, raised |-> merged.raised]
        appended(st) ==
            set_view(st, merge_tags(st.tags, <<<<>>, <<>>>>,
                            SortedPairs({<<Lower(t), t>> : t \in DOMAIN st.tags})))
    IN  appended(append_tasks([model |-> <<>>, tags |-> <<>>, labels |-> <<>>],
                              [prefs |-> prefs, initialized |-> initialized,
                               rows |-> rows, filt |-> filt], 0, 0))

CurrentFilters == Filters(filter, tag_filter, label_filter, filter_actionable)

\* TaskListTreeView.refresh()
refresh ==
    /\ call = NoCall
    /\ dialog
    /\ LET shown(r) ==
              /\ real_model' = r.model
              /\ tag_count' = r.tags
              /\ label_count' = r.labels
              /\ view_raised' = r.raised
       IN  shown(refreshed(preferences, db_initialized, tasklist, CurrentFilters))
    /\ UNCHANGED <<dialog, filter, tag_filter, label_filter, filter_actionable,
                   callback>>
    /\ UNCHANGED store_vars
    /\ UNCHANGED extract_vars

\* 'if _NO_TAGS in tags: n_untagged = tags.pop(_NO_TAGS)' of
\* TagListTreeView.refresh, on the dict get_tags() returns: self._tags itself
pop_no_tags(tags) ==
    IF DOMAIN tags \subseteq {NO_TAGS} THEN <<>>
    ELSE [k \in DOMAIN tags \ {NO_TAGS} |-> tags[k]]

\* TagListTreeView.refresh(task_list): the rows of the tag list are made of the
\* counts of the task list, whose entry for untagged tasks is taken out
tag_list_refresh ==
    /\ call = NoCall
    /\ dialog
    /\ tag_count' = pop_no_tags(tag_count)
    /\ view_raised' = FALSE
    /\ UNCHANGED <<dialog, real_model, filter, tag_filter, label_filter,
                   filter_actionable, label_count, callback>>
    /\ UNCHANGED store_vars
    /\ UNCHANGED extract_vars

\* on_tasklist_changed: the dialog connects DelayedCallback(10,
\* on_tasklist_changed) to 'tasklist-changed'. The main loop runs it once
\* after the signal was emitted, whatever handlers were called since:
\* task_list.refresh(), then tag_list.refresh(task_list), which is not
\* reached when refresh raises
on_tasklist_changed ==
    /\ call = NoCall
    /\ dialog
    /\ callback
    /\ callback' = FALSE
    /\ LET shown(r) ==
              /\ real_model' = r.model
              /\ tag_count' = IF r.raised THEN r.tags ELSE pop_no_tags(r.tags)
              /\ label_count' = r.labels
              /\ view_raised' = r.raised
       IN  shown(refreshed(preferences, db_initialized, tasklist, CurrentFilters))
    /\ UNCHANGED <<dialog, filter, tag_filter, label_filter, filter_actionable>>
    /\ UNCHANGED store_vars
    /\ UNCHANGED extract_vars

NoFilter == [on |-> FALSE, inverse |-> FALSE, string |-> <<>>]

\* set_filter(string)
set_filter(string) ==
    /\ call = NoCall
    /\ dialog
    /\ LET inverse == StartsAt(Lower(string), 1, <<"n", "o", "t", " ">>)
           rest == IF inverse THEN Tail_(string, 5) ELSE string
           f == IF string # <<>>
                THEN [on |-> TRUE, inverse |-> inverse, string |-> Lower(Strip(rest))]
                ELSE NoFilter
       IN  /\ filter' = f
           /\ real_model' = eval_filter(
                  Filters(f, tag_filter, label_filter, filter_actionable), real_model)
    /\ view_raised' = FALSE
    /\ UNCHANGED <<dialog, tag_filter, label_filter, filter_actionable, tag_count,
                   label_count, callback>>
    /\ UNCHANGED store_vars
    /\ UNCHANGED extract_vars

LowerAll(texts) == [k \in 1..Len(texts) |-> Lower(texts[k])]

\* set_tag_filter(tags, labels); None is the empty list
set_tag_filter(tags, labels) ==
    /\ call = NoCall
    /\ dialog
    /\ tag_filter' = LowerAll(tags)
    /\ label_filter' = LowerAll(labels)
    /\ real_model' = eval_filter(
           Filters(filter, LowerAll(tags), LowerAll(labels), filter_actionable),
           real_model)
    /\ view_raised' = FALSE
    /\ UNCHANGED <<dialog, filter, filter_actionable, tag_count, label_count,
                   callback>>
    /\ UNCHANGED store_vars
    /\ UNCHANGED extract_vars

\* set_filter_actionable(filter)
set_filter_actionable(b) ==
    /\ call = NoCall
    /\ dialog
    /\ filter_actionable' = b
    /\ real_model' = eval_filter(Filters(filter, tag_filter, label_filter, b), real_model)
    /\ view_raised' = FALSE
    /\ UNCHANGED <<dialog, filter, tag_filter, label_filter, tag_count, label_count,
                   callback>>
    /\ UNCHANGED store_vars
    /\ UNCHANGED extract_vars

\* TaskListDialog(plugin) with uistate['only_show_act']: what its task_list
\* holds after TaskListTreeView.__init__, which ends with refresh(), and
\* TagListTreeView.__init__, which ends with refresh(task_list); raised when
\* the refresh of the task list raises
TaskListDialog(prefs, initialized, rows, only_show_act) ==
    LET made(r) == [r EXCEPT !.tags = IF r.raised THEN @ ELSE pop_no_tags(@)]
    IN  made(refreshed(prefs, initialized, rows,
                       Filters(NoFilter, <<>>, <<>>, only_show_act)))

\* 'dialog = TaskListDialog.unique(self, plugin=self)' of show_task_list: the
\* dialog that exists is presented, or the dialog is made; no dialog is made
\* when its constructor raises
unique_dialog(only_show_act) ==
    LET made(d) ==
            IF d.raised
            THEN /\ view_raised' = TRUE
                 /\ UNCHANGED <<dialog, real_model, filter, tag_filter, label_filter,
                                filter_actionable, tag_count, label_count, callback>>
            ELSE /\ dialog' = TRUE
                 /\ real_model' = d.model
                 /\ tag_count' = d.tags
                 /\ label_count' = d.labels
                 /\ filter' = NoFilter
                 /\ tag_filter' = <<>>
                 /\ label_filter' = <<>>
                 /\ filter_actionable' = only_show_act
                 /\ view_raised' = FALSE
                 /\ callback' = FALSE
    IN  IF dialog
        THEN UNCHANGED view_vars
        ELSE made(TaskListDialog(preferences, db_initialized, tasklist, only_show_act))

\* show_task_list() on an initialized table: the dialog
show_task_list_dialog(only_show_act) ==
    /\ call = NoCall
    /\ ~reload
    /\ db_initialized
    /\ unique_dialog(only_show_act)
    /\ UNCHANGED store_vars
    /\ UNCHANGED extract_vars

\* show_task_list() from the return of ui.reload_index(flush=True): when the
\* index was not rebuilt to its end db_initialized is reset and no dialog is
\* shown, else the dialog
show_task_list_return(finished, only_show_act) ==
    /\ call = NoCall
    /\ reload
    /\ reload' = FALSE
    /\ IF ~finished
       THEN /\ db_initialized' = FALSE
            /\ UNCHANGED view_vars
       ELSE /\ unique_dialog(only_show_act)
            /\ UNCHANGED db_initialized
    /\ UNCHANGED <<preferences, tasklist, call, last>>
    /\ UNCHANGED extract_vars

(***************************************************************************)
(* _extract_tasks, one pass of its loops at a time                         *)
(*                                                                         *)
(* extraction holds the locals of the call: the parse tree and default     *)
(* date it was called with, the number of the paragraph the outer loop is  *)
(* in, its lines (after lines.pop(0) of a header), the number of lines the *)
(* inner loop has processed, istasklist, globaltags, tasks and stack.      *)
(* origin records, for every task appended, the paragraph and the line it  *)
(* was made of, with the path of the task in tasks.                        *)
(***************************************************************************)

\* the locals at the entry of _extract_tasks(parsetree, defaultdate)
extract_tasks_call(parsetree, defaultdate) ==
    [parsetree |-> parsetree, defaultdate |-> defaultdate, tasks |-> <<>>,
     para |-> 0, lines |-> <<>>, pos |-> 0, istasklist |-> FALSE,
     globaltags |-> <<>>, stack |-> <<>>, returned |-> FALSE]

\* no call of _extract_tasks in progress
NoExtraction == [extract_tasks_call(<<>>, None) EXCEPT !.returned = TRUE]

\* 'for node in parsetree.findall('p')': the next paragraph is flattened, the
\* header test made and the stack emptied
extract_next_para ==
    /\ ~extraction.returned
    /\ extraction.pos = Len(extraction.lines)
    /\ extraction.para < Len(extraction.parsetree)
    /\ LET begun(para_lines, header) ==
              extraction' = [extraction EXCEPT
                  !.para = @ + 1,
                  !.lines = IF header THEN Tail(para_lines) ELSE para_lines,
                  !.pos = 0,
                  !.istasklist = header,
                  !.globaltags = IF header THEN header_words(para_lines[1].text)
                                 ELSE <<>>,
                  !.stack = <<>>]
           flattened(para_lines) == begun(para_lines, is_header(preferences, para_lines))
       IN  flattened(extraction.parsetree[extraction.para + 1])
    /\ UNCHANGED origin
    /\ UNCHANGED store_vars
    /\ UNCHANGED view_vars

\* 'for item in lines': one item is processed
extract_next_item ==
    /\ ~extraction.returned
    /\ extraction.pos < Len(extraction.lines)
    /\ LET processed(item, st) ==
              /\ extraction' = [extraction EXCEPT
                     !.tasks = st.tasks, !.stack = st.stack, !.pos = @ + 1]
              /\ origin' =
                    IF st.tasks = extraction.tasks THEN origin
                    ELSE origin \cup
                         {[path |-> IF item.kind = "item"
                                    THEN st.stack[Len(st.stack)].path
                                    ELSE <<Len(st.tasks)>>,
                           para |-> extraction.para,
                           pos |-> extraction.pos + 1]}
           next_item(item) ==
              processed(item,
                        extract_item(preferences,
                                     [tasks |-> extraction.tasks,
                                      stack |-> extraction.stack],
                                     item, extraction.istasklist,
                                     extraction.globaltags, extraction.defaultdate))
       IN  next_item(extraction.lines[extraction.pos + 1])
    /\ UNCHANGED store_vars
    /\ UNCHANGED view_vars

\* 'return tasks' after the last paragraph
extract_return ==
    /\ ~extraction.returned
    /\ extraction.pos = Len(extraction.lines)
    /\ extraction.para = Len(extraction.parsetree)
    /\ extraction' = [extraction EXCEPT !.returned = TRUE]
    /\ UNCHANGED origin
    /\ UNCHANGED store_vars
    /\ UNCHANGED view_vars

\* a text line and a list entry as _flatten_para returns them
TextLine(text) == [kind |-> "line", text |-> text]
ListItem(bullet, level, text) ==
    [kind |-> "item", bullet |-> bullet, level |-> level, text |-> text]

\* the lines the paragraphs are made of: a plain text line, a labelled line
\* with a tag (a header when a list follows it), a bullet that is no task, open
\* check boxes at the levels 1 and 2, a closed check box, a "next" task, and
\* an open check box with a priority and a due date
ExtractItems ==
    {TextLine(<<"x">>),
     TextLine(<<"T", " ", "@", "a">>),
     ListItem(BULLET, 0, <<"x">>),
     ListItem(UNCHECKED_BOX, 1, <<"x">>),
     ListItem(UNCHECKED_BOX, 2, <<"x">>),
     ListItem(CHECKED_BOX, 0, <<"x">>),
     ListItem(UNCHECKED_BOX, 0, <<"N", ":", " ", "x">>),
     ListItem(UNCHECKED_BOX, 0, <<"x", " ", "!", " ", "[", "d", ":", "2", "0", "2", "4", "-", "0", "3", "-", "0", "1", "]">>)}

\* the most lines a parse tree holds
MaxLines == 3

\* the parse trees: up to MaxLines lines, in one paragraph or cut into two
LineSeqs == UNION {[1..n -> ExtractItems] : n \in 1..MaxLines}

ParseTrees ==
    {<<ls>> : ls \in LineSeqs}
    \cup UNION {{<<SubSeq(ls, 1, c), SubSeq(ls, c + 1, Len(ls))>> :
                    c \in 1..(Len(ls) - 1)} : ls \in LineSeqs}

\* the defaultdate of the call: None, or the deadline of a calendar page
DefaultDates == {None, <<"2", "0", "2", "4", "-", "0", "1", "-", "3", "1">>}

(***************************************************************************)
(* Specifications                                                          *)
(***************************************************************************)

\* the texts typed into the filter entry
FilterStrings ==
    {<<>>, <<"x">>, <<"n", "o", "t", " ", "x">>, <<"!">>}

\* the tags and labels selected in the tag list
TagSelections == {<<>>, <<<<"A">>>>, <<NO_TAGS, <<"a">>>>, <<<<"b">>>>}
LabelSelections == {<<>>, <<<<"T">>>>}

\* no dialog was made
NoDialog ==
    /\ dialog = FALSE
    /\ real_model = <<>>
    /\ tag_count = <<>>
    /\ label_count = <<>>
    /\ filter = NoFilter
    /\ tag_filter = <<>>
    /\ label_filter = <<>>
    /\ filter_actionable = FALSE
    /\ view_raised = FALSE
    /\ callback = FALSE

\* the plugin after finalize_notebook on a notebook that was never indexed
Init ==
    /\ preferences = Prefs(<<>>, <<>>)
    /\ db_initialized = FALSE
    /\ tasklist = {}
    /\ call = NoCall
    /\ last = Returned("none", 0, NoPage, {}, "None", FALSE)
    /\ reload = FALSE
    /\ NoDialog
    /\ extraction = NoExtraction
    /\ origin = {}

\* the handlers of the plugin while no dialog is shown
Next ==
    \/ initialize_db
    \/ \E prefs \in PrefChoices, drop_raises \in BOOLEAN :
          do_preferences_changed(prefs, drop_raises)
    \/ \E drop_raises \in BOOLEAN : disconnect(drop_raises)
    \/ show_task_list_reload
    \/ show_task_list_return(FALSE, FALSE)
    \/ \E p \in Pages : remove_page(p)
    \/ \E p \in Pages, page \in PageVersions : index_page_remove(p, page)
    \/ index_page_insert
    \/ \E where \in {"get_parsetree", "_extract_tasks", "_insert"} : index_page_raise(where)

Spec == Init /\ [][Next]_vars

\* the table after index_page of every page p with contents version[p]
RECURSIVE indexed(_, _, _)
indexed(prefs, version, p) ==
    IF p = 0 THEN {}
    ELSE LET rows == indexed(prefs, version, p - 1)
         IN  insert(rows, p, 0, page_tasks(prefs, p, version[p]))

\* show_task_list() on a notebook that was never indexed, waiting in
\* ui.reload_index(flush=True): initialize_db was called and every page was
\* indexed, the last page last
InitView ==
    /\ preferences = Prefs(<<>>, <<>>)
    /\ db_initialized = TRUE
    /\ \E version \in [Pages -> PageVersions] :
          /\ tasklist = indexed(preferences, version, NumPages)
          /\ last = Returned("index_page", NumPages, version[NumPages], {}, "None",
                             page_tasks(preferences, NumPages, version[NumPages]) # <<>>)
    /\ call = NoCall
    /\ reload = TRUE
    /\ NoDialog
    /\ extraction = NoExtraction
    /\ origin = {}

\* show_task_list, the dialog and its methods on an indexed notebook: no page
\* is indexed while the dialog is shown, 'tasklist-changed' is not emitted
NextView ==
    \/ \E finished, only_show_act \in BOOLEAN :
          show_task_list_return(finished, only_show_act)
    \/ \E only_show_act \in BOOLEAN : show_task_list_dialog(only_show_act)
    \/ tag_list_refresh
    \/ refresh
    \/ \E string \in FilterStrings : set_filter(string)
    \/ \E tags \in TagSelections, labels \in LabelSelections : set_tag_filter(tags, labels)
    \/ \E b \in BOOLEAN : set_filter_actionable(b)

SpecView == InitView /\ [][NextView]_vars

\* the texts typed into the filter entry while pages are indexed
DialogFilterStrings == {<<>>, <<"x">>}

\* the plugin after finalize_notebook on a notebook that was indexed before
InitDialog ==
    /\ preferences = Prefs(<<>>, <<>>)
    /\ db_initialized = TRUE
    /\ \E version \in [Pages -> PageVersions] :
          tasklist = indexed(preferences, version, NumPages)
    /\ call = NoCall
    /\ last = Returned("none", 0, NoPage, {}, "None", FALSE)
    /\ reload = FALSE
    /\ NoDialog
    /\ extraction = NoExtraction
    /\ origin = {}

\* the dialog while the pages of the notebook are indexed again
NextDialog ==
    \/ show_task_list_dialog(FALSE)
    \/ \E p \in Pages, page \in PageVersions : index_page_remove(p, page)
    \/ index_page_insert
    \/ \E p \in Pages : remove_page(p)
    \/ on_tasklist_changed
    \/ \E string \in DialogFilterStrings : set_filter(string)

SpecDialog == InitDialog /\ [][NextDialog]_vars

\* _extract_tasks called on a parse tree, with the default preferences
InitExtract ==
    /\ preferences = Prefs(<<>>, <<>>)
    /\ db_initialized = FALSE
    /\ tasklist = {}
    /\ call = NoCall
    /\ last = Returned("none", 0, NoPage, {}, "None", FALSE)
    /\ reload = FALSE
    /\ NoDialog
    /\ \E parsetree \in ParseTrees, defaultdate \in DefaultDates :
          extraction = extract_tasks_call(parsetree, defaultdate)
    /\ origin = {}

\* the passes of the loops of _extract_tasks
NextExtract ==
    \/ extract_next_para
    \/ extract_next_item
    \/ extract_return

SpecExtract == InitExtract /\ [][NextExtract]_vars

(***************************************************************************)
(* Properties of the table (checked under Spec)                            *)
(***************************************************************************)

\* the task tuple a row of the table holds
task_of(r) ==
    [open |-> r.open, actionable |-> r.actionable, prio |-> r.prio,
     due |-> r.due, description |-> r.description]

\* the nested task list the rows under parentid make, children in id order
RECURSIVE forest_of(_, _)
forest_of(rows, parentid) ==
    LET level == ById({r \in rows : r.parent = parentid})
    IN  [i \in 1..Len(level) |-> <<task_of(level[i]), forest_of(rows, level[i].id)>>]

\* the number of tasks of a nested task list
RECURSIVE forest_size(_)
forest_size(f) ==
    IF f = <<>> THEN 0 ELSE 1 + forest_size(f[1][2]) + forest_size(Tail(f))

\* the rows of a page are exactly the nested task list f
holds_forest(rows, pageid, f) ==
    /\ forest_of(rows_of(rows, pageid), 0) = f
    /\ Cardinality(rows_of(rows, pageid)) = forest_size(f)

\* C1: in every state of the table, a row has haschildren = true exactly when
\* some row of the table names it as its parent.
C1_HasChildren ==
    \A r \in tasklist : r.haschildren <=> (\E c \in tasklist : c.parent = r.id)

\* C1 witness: index_page returned on a page that already had rows, and the
\* table holds a row with children and a row without.
C1_Witness ==
    /\ call = NoCall /\ last.op = "index_page" /\ last.before # {}
    /\ \E r \in tasklist : r.haschildren /\ \E c \in tasklist : c.parent = r.id
    /\ \E r \in tasklist : ~r.haschildren

\* C2: when index_page of a page fails before its new rows are committed, the
\* rows the page had before the call are all still in the table.
C2_FailureKeepsRows ==
    (call = NoCall /\ last.op = "index_page" /\ last.raised)
        => last.before \subseteq tasklist

\* C3: in every state between the two commits of index_page, what list_tasks
\* returns to a reader for the page is the top level of its previous rows or
\* the top level of its new task list.
C3_AtomicReplace ==
    call.op = "index_page" =>
        LET OfPage(r) == r.source = call.path
            got == SelectSeq(list_tasks(db_initialized, tasklist, 0), OfPage)
            old == ById({r \in call.before : r.parent = 0})
            new == page_tasks(preferences, call.path, call.page)
        IN  \/ got = old
            \/ /\ Len(got) = Len(new)
               /\ \A i \in 1..Len(got) :
                     /\ task_of(got[i]) = new[i][1]
                     /\ got[i].haschildren = (new[i][2] # <<>>)

\* C4: an index_page or remove_page call that changed the rows of the table
\* emitted 'tasklist-changed' before it returned.
C4_ChangeEmits ==
    (/\ call = NoCall
     /\ last.op \in {"index_page", "remove_page"}
     /\ ~last.raised
     /\ rows_of(tasklist, last.path) # last.before)
        => last.emitted

\* index_page returned on an initialized table
IndexPageReturned ==
    call = NoCall /\ db_initialized /\ last.op = "index_page" /\ ~last.raised

\* the nested task list of the parse tree the page was indexed with
current_forest ==
    IF get_parsetree(last.page) # None
    THEN extract_tasks(preferences, get_parsetree(last.page), deadline(preferences, last.path))
    ELSE <<>>

\* C5 as claimed: after index_page returns on an initialized table, the rows
\* of the page are exactly the task list extracted from its current parse tree.
C5_RowsAreCurrentForest ==
    IndexPageReturned => holds_forest(tasklist, last.path, current_forest)

\* C5 as amended: after index_page returns on an initialized table, the rows
\* of the page are exactly the task list extracted from its current parse tree
\* when no included subtrees are set or the page is in an included and not in
\* an excluded subtree; the page has no rows when included subtrees are set
\* and the page is outside them or inside an excluded subtree.
C5_RowsAreCurrentForestIfIndexed ==
    IndexPageReturned =>
        LET name == PageName(last.path)
            outside == ~subtree_match(preferences.included_subtrees, name)
            inside == /\ preferences.excluded_subtrees # <<>>
                      /\ subtree_match(preferences.excluded_subtrees, name)
        IN  IF preferences.included_subtrees # <<>> /\ (outside \/ inside)
            THEN rows_of(tasklist, last.path) = {}
            ELSE holds_forest(tasklist, last.path, current_forest)

\* C5 witness: index_page returned on a page that had rows and now holds the
\* rows of another, non-empty task list.
C5_Witness ==
    /\ IndexPageReturned
    /\ last.before # {}
    /\ rows_of(tasklist, last.path) # {}
    /\ forest_of(rows_of(tasklist, last.path), 0) # forest_of(last.before, 0)

\* C6: a step of remove_page(p) returns True exactly when the page had rows;
\* afterwards the page has no rows; when it had none the call returns a false
\* value (False, or None while the table is not initialized) without raising,
\* leaves the table as it was and emits nothing.
C6_RemovePageStep(p) ==
    LET existed == rows_of(tasklist, p) # {}
    IN  /\ last'.ret = "True" <=> existed
        /\ rows_of(tasklist', p) = {}
        /\ ~existed => /\ last'.ret \in {"False", "None"}
                       /\ ~last'.raised
                       /\ tasklist' = tasklist
                       /\ ~last'.emitted

C6_RemovePage == [][\A p \in Pages : remove_page(p) => C6_RemovePageStep(p)]_vars

(***************************************************************************)
(* Properties of the tree view (checked under SpecView)                    *)
(***************************************************************************)

\* the rows of the view of the dialog are as _eval_filter leaves them
FilterEvaluated == dialog /\ real_model = eval_filter(CurrentFilters, real_model)

\* the view of the dialog is as refresh() leaves it
Refreshed ==
    /\ dialog
    /\ real_model = refreshed(preferences, db_initialized, tasklist, CurrentFilters).model

\* the ancestors of row i of the view
RECURSIVE ancestors(_, _)
ancestors(model, i) ==
    IF model[i].parent = 0 THEN {}
    ELSE {model[i].parent} \cup ancestors(model, model[i].parent)

\* C7: after the filter is evaluated, every ancestor of a visible row is
\* marked visible, whether or not it passes the filter itself.
C7_AncestorsVisible ==
    FilterEvaluated =>
        \A i \in 1..Len(real_model) :
            real_model[i].vis => \A a \in ancestors(real_model, i) : real_model[a].vis

\* C7 witness: a visible row two levels deep whose parent and grandparent do
\* not pass the filter themselves and are visible.
C7_Witness ==
    /\ FilterEvaluated
    /\ \E i \in 1..Len(real_model) :
          /\ real_model[i].vis
          /\ Cardinality(ancestors(real_model, i)) = 2
          /\ \A a \in ancestors(real_model, i) :
                real_model[a].vis /\ ~filter_item(CurrentFilters, real_model[a])

\* the columns _append_tasks gives a row of the table
columns_of(r) ==
    model_row([prefs |-> preferences, initialized |-> db_initialized,
               rows |-> tasklist, filt |-> CurrentFilters], r, 0)

\* C8: after a refresh, every open row of the table that passes the filter is
\* a visible row of the view, whatever the state of its ancestors.
C8_OpenMatchVisible ==
    Refreshed =>
        \A r \in tasklist :
            (r.open /\ filter_item(CurrentFilters, columns_of(r))) =>
                \E i \in 1..Len(real_model) :
                    real_model[i].taskid = r.id /\ real_model[i].vis

\* the base visibility of a row as C9 states it
claimed_base(r) ==
    LET description == Lower(r.description)
        pagename == Lower(PageName(r.source))
        tags == row_tags(preferences, r)
        labelled == \E k \in 1..Len(label_filter) : Contains(description, label_filter[k])
        tagged == \/ (\E k \in 1..Len(tag_filter) : tag_filter[k] = NO_TAGS) /\ tags = <<>>
                  \/ \E k \in 1..Len(tag_filter) : \E j \in 1..Len(tags) :
                        tag_filter[k] = tags[j]
        occurs == \/ Contains(description, filter.string)
                  \/ Contains(pagename, filter.string)
    IN  /\ r.open
        /\ ~filter_actionable \/ r.actionable
        /\ label_filter = <<>> \/ labelled
        /\ tag_filter = <<>> \/ tagged
        /\ ~filter.on \/ (IF filter.inverse THEN ~occurs ELSE occurs)

\* C9: the base visibility of a row is the conjunction of the active filter
\* dimensions: open, actionable when only actionable rows are shown, a filtered
\* label in the description, the tag condition, and the filter text in the
\* description or the page name (in neither when negated).
C9_BaseVisibility ==
    \A r \in tasklist : filter_item(CurrentFilters, columns_of(r)) = claimed_base(r)

\* C10: with a tag filter set, an open row of the view passes the tag
\* dimension exactly when it carries one of the filtered tags, or the filter
\* holds the no-tags marker and the row has no tags.
C10_TagDimension ==
    tag_filter # <<>> =>
        \A i \in 1..Len(real_model) :
            real_model[i].open =>
                LET tags == real_model[i].tags
                    carries == \E k \in 1..Len(tag_filter) : \E j \in 1..Len(tags) :
                                  Lower(tags[j]) = tag_filter[k]
                    untagged == /\ \E k \in 1..Len(tag_filter) : tag_filter[k] = NO_TAGS
                                /\ tags = <<>>
                IN  filter_item(Filters(NoFilter, tag_filter, <<>>, FALSE), real_model[i])
                        <=> (carries \/ untagged)

\* C11: tag filtering is case-insensitive: an open row of the view that carries
\* a tag in some letter case passes a tag filter that holds the same tag in
\* any letter case.
C11_TagCaseInsensitive ==
    \A i \in 1..Len(real_model) :
        (/\ real_model[i].open
         /\ \E k \in 1..Len(tag_filter) : \E j \in 1..Len(real_model[i].tags) :
               Lower(real_model[i].tags[j]) = Lower(tag_filter[k]))
            => filter_item(Filters(NoFilter, tag_filter, <<>>, FALSE), real_model[i])

(***************************************************************************)
(* Properties of _extract_tasks (checked under SpecExtract)                *)
(***************************************************************************)

\* the lists of a nested task list: the top-level one and every children list
RECURSIVE task_lists(_)
task_lists(tasks) ==
    {tasks} \cup UNION {task_lists(tasks[i][2]) : i \in 1..Len(tasks)}

\* C12: in every list of the extracted tasks, a task whose text matches the
\* next label is actionable only if no earlier task of the same list is open,
\* and a task whose text does not match it is actionable.
C12_NextActionable ==
    \A l \in task_lists(extraction.tasks) :
        \A i \in 1..Len(l) :
            IF next_label_match(preferences, l[i][1].description) > 0
            THEN l[i][1].actionable => \A j \in 1..(i - 1) : ~l[j][1].open
            ELSE l[i][1].actionable

\* the lines of a paragraph the inner loop runs over: without its header
para_body(lines) == IF is_header(preferences, lines) THEN Tail(lines) ELSE lines

\* the line a task was made of
item_of(o) == para_body(extraction.parsetree[o.para])[o.pos]

\* the (task, children) pair at a path of a nested task list
node_at(tasks, path) ==
    ChildrenAt(tasks, SubSeq(path, 1, Len(path) - 1))[path[Len(path)]]

\* the paths of the tasks that enclose the task at path
enclosing(path) == {SubSeq(path, 1, n) : n \in 1..(Len(path) - 1)}

\* the number of '!' in a text
exclamations(text) == Cardinality({i \in 1..Len(text) : text[i] = "!"})

\* the priority of the nearest enclosing task that has one, 0 without such
RECURSIVE enclosing_prio(_, _)
enclosing_prio(tasks, path) ==
    IF Len(path) <= 1 THEN 0
    ELSE IF node_at(tasks, SubSeq(path, 1, Len(path) - 1))[1].prio # 0
         THEN node_at(tasks, SubSeq(path, 1, Len(path) - 1))[1].prio
         ELSE enclosing_prio(tasks, SubSeq(path, 1, Len(path) - 1))

\* C13: the priority of every extracted task is the number of '!' in the text
\* it was made of when there is one, and otherwise the priority of its nearest
\* enclosing task with a priority, 0 when no enclosing task has one.
C13_Priority ==
    \A o \in origin :
        node_at(extraction.tasks, o.path)[1].prio =
            IF exclamations(item_of(o).text) > 0
            THEN exclamations(item_of(o).text)
            ELSE enclosing_prio(extraction.tasks, o.path)

\* C13 witness: the call returned a task two levels below a task with a '!',
\* neither it nor its parent has a '!', and it has the priority 1.
C13_Witness ==
    /\ extraction.returned
    /\ \E o \in origin :
          /\ Len(o.path) = 3
          /\ exclamations(item_of(o).text) = 0
          /\ \E q \in origin : /\ q.path = SubSeq(o.path, 1, 2)
                               /\ exclamations(item_of(q).text) = 0
          /\ \E q \in origin : /\ q.path = SubSeq(o.path, 1, 1)
                               /\ exclamations(item_of(q).text) = 1
          /\ node_at(extraction.tasks, o.path)[1].prio = 1

\* the text holds a due date directive that parse_date accepts
date_parsed(text) ==
    /\ date_re_search(text).from # 0
    /\ parse_date(SubSeq(text, date_re_search(text).from, date_re_search(text).to)) # None

\* the due date of the task at a path
due_at(path) == node_at(extraction.tasks, path)[1].due

\* C14: an extracted task without a parsed due date directive has the due date
\* of its parent task when that is a real date, otherwise the default date of
\* the call when there is one, otherwise the sentinel; it has the sentinel only
\* when the call has no default date and no enclosing task has a real date.
C14_DueDate ==
    \A o \in origin :
        ~date_parsed(item_of(o).text) =>
            /\ due_at(o.path) =
                  IF Len(o.path) > 1 /\ due_at(SubSeq(o.path, 1, Len(o.path) - 1)) # NO_DATE
                  THEN due_at(SubSeq(o.path, 1, Len(o.path) - 1))
                  ELSE IF extraction.defaultdate # None THEN extraction.defaultdate
                  ELSE NO_DATE
            /\ due_at(o.path) = NO_DATE =>
                  /\ extraction.defaultdate = None
                  /\ \A a \in enclosing(o.path) : due_at(a) = NO_DATE

\* C14 witness: the call was given a default date and returned a task without
\* a directive, two levels below a task with a parsed directive, under a parent
\* without one: the task has the date of the directive, not the default date.
C14_Witness ==
    /\ extraction.returned
    /\ extraction.defaultdate # None
    /\ \E o \in origin :
          /\ Len(o.path) = 3
          /\ ~date_parsed(item_of(o).text)
          /\ \E q \in origin : /\ q.path = SubSeq(o.path, 1, 2)
                               /\ ~date_parsed(item_of(q).text)
          /\ \E q \in origin : /\ q.path = SubSeq(o.path, 1, 1)
                               /\ date_parsed(item_of(q).text)
          /\ due_at(o.path) = due_at(SubSeq(o.path, 1, 1))
          /\ due_at(o.path) \notin {NO_DATE, extraction.defaultdate}

\* line n of the paragraph in progress was made a task
made_task(n) == \E o \in origin : o.para = extraction.para /\ o.pos = n

\* line j of the paragraph in progress is a list entry nested beneath the
\* list entry at line i: every line from i + 1 to j is a list entry of a
\* deeper level
nested_beneath(i, j) ==
    /\ i < j
    /\ extraction.lines[i].kind = "item"
    /\ \A k \in (i + 1)..j :
          /\ extraction.lines[k].kind = "item"
          /\ extraction.lines[k].level > extraction.lines[i].level

\* C15: when a list entry of the paragraph is not made a task, none of the
\* list entries nested beneath it is made a task.
C15_NonTaskPruned ==
    \A i \in 1..extraction.pos, j \in 1..extraction.pos :
        (nested_beneath(i, j) /\ ~made_task(i)) => ~made_task(j)

\* the levels of the stack entries increase strictly from bottom to top
stack_levels_increase(stack) ==
    \A k \in 1..(Len(stack) - 1) : stack[k].level < stack[k + 1].level

\* the task of every stack entry is in the task list, the bottom one at the
\* top level and every other one among the children of the entry below it
stack_is_chain(tasks, stack) ==
    /\ stack # <<>> => Len(stack[1].path) = 1
    /\ \A k \in 1..(Len(stack) - 1) :
          /\ Len(stack[k + 1].path) = Len(stack[k].path) + 1
          /\ SubSeq(stack[k + 1].path, 1, Len(stack[k].path)) = stack[k].path
    /\ \A k \in 1..Len(stack) : node_at(tasks, stack[k].path)[1] = stack[k].task

\* C16: after every item the levels of the stack entries increase strictly
\* from bottom to top and every entry's task is a child of the entry below,
\* the bottom one a top-level task; every task that has a parent was made of a
\* list entry of a deeper level than the list entry its parent was made of.
C16_StackLevels ==
    /\ stack_levels_increase(extraction.stack)
    /\ stack_is_chain(extraction.tasks, extraction.stack)
    /\ \A o \in origin :
          Len(o.path) > 1 =>
              \E q \in origin :
                  /\ q.path = SubSeq(o.path, 1, Len(o.path) - 1)
                  /\ q.para = o.para
                  /\ item_of(q).kind = "item"
                  /\ item_of(o).level > item_of(q).level

\* C16 witness: the third item of a paragraph was pushed after an entry of a
\* deeper level was popped: the stack holds two entries, and the task of the
\* bottom one has two children, the second one on top of the stack.
C16_Witness ==
    /\ extraction.pos = 3
    /\ Len(extraction.stack) = 2
    /\ Len(node_at(extraction.tasks, extraction.stack[1].path)[2]) = 2
    /\ extraction.stack[2].path = Append(extraction.stack[1].path, 2)
    /\ extraction.lines[2].level > extraction.lines[3].level

\* a text line stands between the lines a and b of paragraph para
line_between(para, a, b) ==
    \E k \in (a + 1)..(b - 1) : para_body(extraction.parsetree[para])[k].kind = "line"

\* C17: a task made of a list entry has no enclosing task from before a text
\* line that precedes the entry in its paragraph, and a task made of a text
\* line is a top-level task without children.
C17_LineResetsStack ==
    \A o \in origin :
        IF item_of(o).kind = "item"
        THEN \A q \in origin :
                q.path \in enclosing(o.path) =>
                    q.para = o.para /\ ~line_between(o.para, q.pos, o.pos)
        ELSE Len(o.path) = 1 /\ node_at(extraction.tasks, o.path)[2] = <<>>

\* C17 witness: the call returned on a paragraph of a task list entry, a
\* labelled text line and a list entry of a deeper level: three top-level
\* tasks, none with children.
C17_Witness ==
    /\ extraction.returned
    /\ \E a \in origin, b \in origin, c \in origin :
          /\ a.para = b.para /\ b.para = c.para
          /\ a.pos = 1 /\ b.pos = 2 /\ c.pos = 3
          /\ item_of(a).kind = "item"
          /\ item_of(b).kind = "line"
          /\ item_of(c).kind = "item" /\ item_of(c).level > item_of(a).level
          /\ Len(a.path) = 1 /\ Len(b.path) = 1 /\ Len(c.path) = 1
          /\ \A o \in {a, b, c} : node_at(extraction.tasks, o.path)[2] = <<>>

(***************************************************************************)
(* Further properties of the tree view (checked under SpecDialog)          *)
(***************************************************************************)

\* row i of the view passes the filter itself, under the current settings
base_visible(i) == filter_item(CurrentFilters, real_model[i])

\* C18: in every state of the view a row is marked visible exactly when it
\* passes the current filter itself or one of its descendants does.
C18_VisibleIffBaseOrDescendant ==
    \A i \in 1..Len(real_model) :
        real_model[i].vis <=>
            \/ base_visible(i)
            \/ \E j \in 1..Len(real_model) :
                  i \in ancestors(real_model, j) /\ base_visible(j)

\* the tags the rows of the view carry, in lower case
view_tags ==
    UNION {{Lower(real_model[i].tags[j]) : j \in 1..Len(real_model[i].tags)} :
              i \in 1..Len(real_model)}

\* the places (row, position) where a letter-case variant of tag t stands
tag_places(t) ==
    UNION {{<<i, j>> : j \in {n \in 1..Len(real_model[i].tags) :
                                 Lower(real_model[i].tags[n]) = t}} :
              i \in 1..Len(real_model)}

\* the entries of the tag index that are letter-case variants of tag t
tag_entries(t) == {k \in DOMAIN tag_count : Lower(k) = t}

\* C19: no refresh of the task list raises, in the constructor of the dialog
\* or afterwards, and the tag index holds for every tag of the open rows
\* exactly one entry among its letter-case variants, counting the rows that
\* carry any of the variants, and no entry for any other tag.
C19_TagVariantsMerged ==
    /\ ~view_raised
    /\ \A t \in view_tags :
          /\ Cardinality(tag_entries(t)) = 1
          /\ \A k \in tag_entries(t) : tag_count[k] = Cardinality(tag_places(t))
    /\ \A k \in DOMAIN tag_count : k = NO_TAGS \/ Lower(k) \in view_tags

(***************************************************************************)
(* Further properties of the table (checked under Spec)                    *)
(***************************************************************************)

\* C20: after index_page returns on an initialized table for a page whose
\* name matches an excluded subtree, the table holds no rows of the page,
\* whether or not included subtrees are set.
C20_ExcludedNotIndexed ==
    (/\ IndexPageReturned
     /\ preferences.excluded_subtrees # <<>>
     /\ subtree_match(preferences.excluded_subtrees, PageName(last.path)))
        => rows_of(tasklist, last.path) = {}

====
